---- MODULE Spec2Model ----
(***************************************************************************)
(* Hamming (31,26) encoder: hamming_encoder_luisa_becker.py.               *)
(*                                                                         *)
(* A Python str is a sequence of one-character strings; a Python list of   *)
(* str is a sequence of such sequences.  A Python 0-based index i is the   *)
(* index i + 1 here, written (i) + 1 where the code computes i.            *)
(***************************************************************************)
EXTENDS Integers, Sequences, FiniteSets, TLC

(***************************************************************************)
(* State.                                                                  *)
(***************************************************************************)
VARIABLES
    chunk,      \* encode_hamming_31_26: its argument
    epc,        \* encode_hamming_31_26: where the call is
    codeword,   \* encode_hamming_31_26: the list codeword
    pdone,      \* encode_hamming_31_26: the parity positions stored so far
    eresult,    \* encode_hamming_31_26: the outcome once the call has ended
    args,       \* main: the parsed arguments bits, file, out
    fs,         \* main: the input file and whether the output path opens
    mpc,        \* main: where the run is
    bits,       \* main: bits
    chunks,     \* main: chunks
    codewords,  \* main: codewords
    padding,    \* main: padding
    stdout,     \* main: the lines printed
    outfile,    \* main: the lines written to args.out
    mexit       \* main: the SystemExit message or uncaught exception

(***************************************************************************)
(* Bounds of the explored inputs.                                          *)
(***************************************************************************)
\* longest period of the 0/1 background pattern of an encoder input
MaxPat == 2
\* longest run of arbitrary characters written over the background
MaxWin == 1
\* encoder inputs have between 26 - LenSlack and 26 + LenSlack characters
LenSlack == 1
\* longest period of the pattern a raw command-line or file input repeats
MaxRawPat == 2
\* longest raw command-line or file input
MaxRawLen == 53

(***************************************************************************)
(* Program constants.                                                      *)
(***************************************************************************)
\* main: chunk_bits(bits, 26)
ChunkSize == 26
\* encode_hamming_31_26: len(chunk) != 26
BlockLen == 26
\* encode_hamming_31_26: ['0'] * 31
CodeLen == 31
\* encode_hamming_31_26: range(1, 32)
RangeStop == 32

parity_positions == <<1, 2, 4, 8, 16>>

DigitChars == <<"0", "1", "2", "3", "4", "5", "6", "7", "8", "9">>

(***************************************************************************)
(* Python primitives the code uses.                                        *)
(***************************************************************************)
\* a & b on non-negative ints
RECURSIVE BitAnd(_, _)
BitAnd(a, b) ==
    IF a = 0 \/ b = 0 THEN 0
    ELSE (IF a % 2 = 1 /\ b % 2 = 1 THEN 1 ELSE 0)
         + 2 * BitAnd(a \div 2, b \div 2)

\* a ^ b on non-negative ints
RECURSIVE BitXor(_, _)
BitXor(a, b) ==
    IF a = 0 THEN b
    ELSE IF b = 0 THEN a
    ELSE ((a + b) % 2) + 2 * BitXor(a \div 2, b \div 2)

\* x in lst, for a list
InList(x, lst) == \E k \in 1..Len(lst) : lst[k] = x

\* int(s) succeeds: s is a non-empty string of decimal digits
IsIntLiteral(s) ==
    /\ Len(s) >= 1
    /\ \A k \in 1..Len(s) : InList(s[k], DigitChars)

DigitVal(c) == (CHOOSE d \in 1..Len(DigitChars) : DigitChars[d] = c) - 1

\* int(s), for s with IsIntLiteral(s)
RECURSIVE IntOf(_)
IntOf(s) ==
    IF Len(s) = 0 THEN 0
    ELSE 10 * IntOf(SubSeq(s, 1, Len(s) - 1)) + DigitVal(s[Len(s)])

\* str(n), for n >= 0
RECURSIVE StrOf(_)
StrOf(n) ==
    IF n < 10 THEN <<DigitChars[n + 1]>>
    ELSE StrOf(n \div 10) \o <<DigitChars[(n % 10) + 1]>>

\* ''.join(lst)
RECURSIVE Join(_)
Join(lst) == IF lst = <<>> THEN <<>> ELSE Head(lst) \o Join(Tail(lst))

\* '0' * n
RECURSIVE Zeros(_)
Zeros(n) == IF n <= 0 THEN <<>> ELSE Append(Zeros(n - 1), "0")

\* [x] * n
RECURSIVE ListOf(_, _)
ListOf(x, n) == IF n <= 0 THEN <<>> ELSE Append(ListOf(x, n - 1), x)

\* s[lo:hi], 0 <= lo <= hi
Slice(s, lo, hi) ==
    IF lo >= Len(s) THEN <<>>
    ELSE SubSeq(s, lo + 1, IF hi < Len(s) THEN hi ELSE Len(s))

\* ''.join(c for c in s if c in '01')
FilterBits(s) == SelectSeq(s, LAMBDA c : c = "0" \/ c = "1")

(***************************************************************************)
(* chunk_bits                                                              *)
(***************************************************************************)
PadChunkNone(blk, chunk_size) == blk

PadChunkLeft(blk, chunk_size) ==
    IF Len(blk) < chunk_size
    THEN Zeros(chunk_size - Len(blk)) \o blk
    ELSE blk

PadChunk(blk, chunk_size) ==
    IF Len(blk) < chunk_size
    THEN blk \o Zeros(chunk_size - Len(blk))
    ELSE blk

RECURSIVE ChunkLoop(_, _, _, _)
ChunkLoop(s, chunk_size, i, acc) ==
    IF i >= Len(s) THEN acc
    ELSE ChunkLoop(s, chunk_size, i + chunk_size,
                   Append(acc, PadChunk(Slice(s, i, i + chunk_size), chunk_size)))

chunk_bits(s, chunk_size) == ChunkLoop(s, chunk_size, 0, <<>>)

(***************************************************************************)
(* encode_hamming_31_26                                                    *)
(***************************************************************************)
BadLengthBelow(blk) == Len(blk) < BlockLen

BadLength(blk) == Len(blk) # BlockLen

\* the data-placement loop on the list cw, from position pos on
RECURSIVE PlaceLoop(_, _, _, _)
PlaceLoop(blk, cw, data_index, pos) ==
    IF pos >= RangeStop THEN cw
    ELSE IF ~InList(pos, parity_positions)
         THEN PlaceLoop(blk,
                        [cw EXCEPT ![(pos - 1) + 1] = <<blk[data_index + 1]>>],
                        data_index + 1, pos + 1)
         ELSE PlaceLoop(blk, cw, data_index, pos + 1)

PlaceDataNoSkip(blk) ==
    [k \in 1..CodeLen |-> IF k <= Len(blk) THEN <<blk[k]>> ELSE <<"0">>]

\* codeword = ['0'] * 31, then the data-placement loop
PlaceData(blk) == PlaceLoop(blk, ListOf(<<"0">>, CodeLen), 0, 1)

InGroupFrom(pos, p) == pos >= p

\* (pos & p) != 0
InGroup(pos, p) == BitAnd(pos, p) # 0

\* the inner loop of one parity position: the XOR read so far, or the
\* ValueError of int() on the first element that is no int literal
RECURSIVE ParityLoop(_, _, _, _)
ParityLoop(cw, p, parity, pos) ==
    IF pos >= RangeStop THEN [ok |-> TRUE, val |-> parity]
    ELSE IF InGroup(pos, p)
         THEN IF IsIntLiteral(cw[(pos - 1) + 1])
              THEN ParityLoop(cw, p,
                              BitXor(parity, IntOf(cw[(pos - 1) + 1])), pos + 1)
              ELSE [ok |-> FALSE, val |-> 0]
         ELSE ParityLoop(cw, p, parity, pos + 1)

StoreParityOffByOne(cw, p, parity) == [cw EXCEPT ![p + 1] = StrOf(parity)]

StoreParityOdd(cw, p, parity) ==
    [cw EXCEPT ![(p - 1) + 1] = StrOf(BitXor(parity, 1))]

\* codeword[p - 1] = str(parity)
StoreParity(cw, p, parity) == [cw EXCEPT ![(p - 1) + 1] = StrOf(parity)]

\* one iteration of the loop over parity_positions
ParityStep(cw, p) ==
    LET r == ParityLoop(cw, p, 0, 1)
    IN  IF r.ok THEN [ok |-> TRUE, cw |-> StoreParity(cw, p, r.val)]
        ELSE [ok |-> FALSE, cw |-> cw]

\* the loop over the parity positions ps, in the order of ps
RECURSIVE ParityAll(_, _)
ParityAll(cw, ps) ==
    IF ps = <<>> THEN [ok |-> TRUE, cw |-> cw]
    ELSE LET r == ParityStep(cw, Head(ps))
         IN  IF r.ok THEN ParityAll(r.cw, Tail(ps)) ELSE r

\* the call's outcome: the returned str, or the ValueError raised
encode_hamming_31_26(blk) ==
    IF BadLength(blk)
    THEN [status |-> "ValueError", msg |-> "ChunkLength", value |-> <<>>]
    ELSE LET r == ParityAll(PlaceData(blk), parity_positions)
         IN  IF r.ok
             THEN [status |-> "ok", msg |-> "", value |-> Join(r.cw)]
             ELSE [status |-> "ValueError", msg |-> "InvalidLiteral",
                   value |-> <<>>]

(***************************************************************************)
(* Inputs.                                                                 *)
(***************************************************************************)
\* the string of length n that repeats pat
Repeat(pat, n) == [k \in 1..n |-> pat[((k - 1) % Len(pat)) + 1]]

Patterns(alphabet, maxp) == UNION {[1..n -> alphabet] : n \in 1..maxp}

\* s with the characters w written from index at on
Overwrite(s, at, w) ==
    [k \in 1..Len(s) |-> IF k >= at /\ k < at + Len(w) THEN w[k - at + 1] ELSE s[k]]

BlockAlphabet == {"0", "1", "2", "a"}

BlockLengths == (BlockLen - LenSlack)..(BlockLen + LenSlack)

Blocks ==
    UNION { UNION { {Repeat(pat, n)} \cup
                    { Overwrite(Repeat(pat, n), at, w) :
                        at \in 1..n, w \in Patterns(BlockAlphabet, MaxWin) }
                  : pat \in Patterns({"0", "1"}, MaxPat) }
          : n \in BlockLengths }

(***************************************************************************)
(* read_bits_from_file and the pieces of main                              *)
(***************************************************************************)
RawAlphabet == {"0", "1", "x"}

RawInputs ==
    { Repeat(pat, n) : pat \in Patterns(RawAlphabet, MaxRawPat), n \in 0..MaxRawLen }

\* an argparse attribute: None (given = FALSE) or the str given
NoneArg == [given |-> FALSE, val |-> <<>>]
StrArg(s) == [given |-> TRUE, val |-> s]

FilePath == <<"f">>
OutPath == <<"o">>

\* the truth value of an argparse attribute: not None and not ''
Truthy(a) == a.given /\ a.val # <<>>

\* read_bits_from_file(path) against the file system f: open(None) raises
\* TypeError, which the except OSError clause does not catch
read_bits_from_file(path, f) ==
    IF ~path.given THEN [status |-> "TypeError", bits |-> <<>>]
    ELSE IF ~f.readable THEN [status |-> "SystemExit", bits |-> <<>>]
    ELSE [status |-> "ok", bits |-> FilterBits(f.content)]

EncodeAllReversed(cs) ==
    [k \in 1..Len(cs) |-> encode_hamming_31_26(cs[Len(cs) + 1 - k])]

\* [encode_hamming_31_26(chunk) for chunk in chunks]: each call's outcome
EncodeAll(cs) == [k \in 1..Len(cs) |-> encode_hamming_31_26(cs[k])]

\* padding = 0; if len(bits) % 26 != 0: padding = 26 - (len(bits) % 26)
PaddingOf(n) == IF n % ChunkSize # 0 THEN ChunkSize - (n % ChunkSize) ELSE 0

\* an output line: a codeword, or a summary line with its number
Line(kind, text, n) == [kind |-> kind, text |-> text, n |-> n]

summary_lines(nbits, nchunks, pad) ==
    << Line("OriginalLength", <<>>, nbits),
       Line("Chunks", <<>>, nchunks),
       Line("Padding", <<>>, pad) >>

\* for cw in codewords: one line each
CodewordLines(cws) == [k \in 1..Len(cws) |-> Line("codeword", cws[k], 0)]

(***************************************************************************)
(* Tuples of the state and the idle values of each half of it.             *)
(***************************************************************************)
evars == <<chunk, epc, codeword, pdone, eresult>>

mvars == <<args, fs, mpc, bits, chunks, codewords, padding, stdout, outfile, mexit>>

vars == <<chunk, epc, codeword, pdone, eresult,
          args, fs, mpc, bits, chunks, codewords, padding, stdout, outfile, mexit>>

NoResult == [status |-> "none", msg |-> "", value |-> <<>>]

EncIdle ==
    /\ chunk = <<>>
    /\ epc = "idle"
    /\ codeword = <<>>
    /\ pdone = {}
    /\ eresult = NoResult

MainIdle ==
    /\ args = [bits |-> NoneArg, file |-> NoneArg, out |-> NoneArg]
    /\ fs = [readable |-> FALSE, content |-> <<>>, writable |-> FALSE]
    /\ mpc = "idle"
    /\ bits = <<>>
    /\ chunks = <<>>
    /\ codewords = <<>>
    /\ padding = 0
    /\ stdout = <<>>
    /\ outfile = <<>>
    /\ mexit = "none"

(***************************************************************************)
(* One call of encode_hamming_31_26.                                       *)
(***************************************************************************)
EncInit ==
    /\ chunk \in Blocks
    /\ epc = "start"
    /\ codeword = <<>>
    /\ pdone = {}
    /\ eresult = NoResult
    /\ MainIdle

\* if len(chunk) != 26: raise ValueError
EncCheck ==
    /\ epc = "start"
    /\ IF BadLength(chunk)
       THEN /\ epc' = "raised"
            /\ eresult' = [status |-> "ValueError", msg |-> "ChunkLength",
                           value |-> <<>>]
       ELSE /\ epc' = "place"
            /\ eresult' = eresult
    /\ UNCHANGED <<chunk, codeword, pdone>>
    /\ UNCHANGED mvars

\* codeword = ['0'] * 31 and the data-placement loop
EncPlace ==
    /\ epc = "place"
    /\ codeword' = PlaceData(chunk)
    /\ epc' = "parity"
    /\ UNCHANGED <<chunk, pdone, eresult>>
    /\ UNCHANGED mvars

\* the parity iteration for position p
EncParityAt(p) ==
    LET r == ParityStep(codeword, p)
    IN  IF r.ok
        THEN /\ codeword' = r.cw
             /\ pdone' = pdone \cup {p}
             /\ epc' = epc
             /\ eresult' = eresult
        ELSE /\ epc' = "raised"
             /\ eresult' = [status |-> "ValueError", msg |-> "InvalidLiteral",
                            value |-> <<>>]
             /\ UNCHANGED <<codeword, pdone>>

\* the next iteration of: for p in parity_positions
EncParity ==
    /\ epc = "parity"
    /\ Cardinality(pdone) < Len(parity_positions)
    /\ EncParityAt(parity_positions[Cardinality(pdone) + 1])
    /\ UNCHANGED chunk
    /\ UNCHANGED mvars

\* return ''.join(codeword)
EncReturn ==
    /\ epc = "parity"
    /\ Cardinality(pdone) = Len(parity_positions)
    /\ epc' = "returned"
    /\ eresult' = [status |-> "ok", msg |-> "", value |-> Join(codeword)]
    /\ UNCHANGED <<chunk, codeword, pdone>>
    /\ UNCHANGED mvars

EncNext == EncCheck \/ EncPlace \/ EncParity \/ EncReturn

SpecEnc == EncInit /\ [][EncNext]_vars

(***************************************************************************)
(* The same call with the parity iterations taken in any order.            *)
(***************************************************************************)
PermParity ==
    /\ epc = "parity"
    /\ \E k \in 1..Len(parity_positions) :
          /\ parity_positions[k] \notin pdone
          /\ EncParityAt(parity_positions[k])
    /\ UNCHANGED chunk
    /\ UNCHANGED mvars

PermNext == EncCheck \/ EncPlace \/ PermParity \/ EncReturn

SpecPerm == EncInit /\ [][PermNext]_vars

(***************************************************************************)
(* One run of main.                                                        *)
(***************************************************************************)
OutModes ==
    { [out |-> NoneArg, writable |-> FALSE],
      [out |-> StrArg(<<>>), writable |-> FALSE],
      [out |-> StrArg(OutPath), writable |-> TRUE],
      [out |-> StrArg(OutPath), writable |-> FALSE] }

\* --bits and --file are mutually exclusive and one of them is required
Init ==
    /\ \E raw \in RawInputs, m \in OutModes, src \in {"bits", "file", "nofile"} :
          /\ args = [bits |-> IF src = "bits" THEN StrArg(raw) ELSE NoneArg,
                     file |-> IF src = "bits" THEN NoneArg ELSE StrArg(FilePath),
                     out  |-> m.out]
          /\ fs = [readable |-> (src = "file"),
                   content  |-> IF src = "file" THEN raw ELSE <<>>,
                   writable |-> m.writable]
          /\ (src = "nofile" => raw = <<>>)
    /\ mpc = "start"
    /\ bits = <<>>
    /\ chunks = <<>>
    /\ codewords = <<>>
    /\ padding = 0
    /\ stdout = <<>>
    /\ outfile = <<>>
    /\ mexit = "none"
    /\ EncIdle

\* args = parse_args() up to the two empty-input checks
MainReadInput ==
    /\ mpc = "start"
    /\ IF Truthy(args.bits)
       THEN LET b == FilterBits(args.bits.val)
            IN  IF b = <<>>
                THEN /\ mpc' = "exited"
                     /\ mexit' = "BitsNoBinaryDigit"
                     /\ bits' = b
                ELSE /\ mpc' = "chunk"
                     /\ mexit' = mexit
                     /\ bits' = b
       ELSE LET r == read_bits_from_file(args.file, fs)
            IN  IF r.status = "TypeError"
                THEN /\ mpc' = "crashed"
                     /\ mexit' = "TypeError"
                     /\ bits' = bits
                ELSE IF r.status = "SystemExit"
                THEN /\ mpc' = "exited"
                     /\ mexit' = "ErrorReadingFile"
                     /\ bits' = bits
                ELSE IF r.bits = <<>>
                THEN /\ mpc' = "exited"
                     /\ mexit' = "FileNoBinaryDigit"
                     /\ bits' = r.bits
                ELSE /\ mpc' = "chunk"
                     /\ mexit' = mexit
                     /\ bits' = r.bits
    /\ UNCHANGED <<args, fs, chunks, codewords, padding, stdout, outfile>>
    /\ UNCHANGED evars

\* chunks, codewords, padding
MainEncode ==
    /\ mpc = "chunk"
    /\ chunks' = chunk_bits(bits, ChunkSize)
    /\ \E rs \in {EncodeAll(chunks')} :
          IF \E k \in 1..Len(rs) : rs[k].status # "ok"
          THEN /\ mpc' = "crashed"
               /\ mexit' = "ValueError"
               /\ UNCHANGED <<codewords, padding>>
          ELSE /\ mpc' = "output"
               /\ mexit' = mexit
               /\ codewords' = [k \in 1..Len(rs) |-> rs[k].value]
               /\ padding' = PaddingOf(Len(bits))
    /\ UNCHANGED <<args, fs, bits, stdout, outfile>>
    /\ UNCHANGED evars

\* the output: to args.out and the summary, or everything to stdout
MainOutput ==
    /\ mpc = "output"
    /\ LET summary == summary_lines(Len(bits), Len(chunks), padding)
       IN  IF Truthy(args.out)
           THEN IF fs.writable
                THEN /\ outfile' = CodewordLines(codewords)
                     /\ stdout' = summary \o <<Line("WrittenTo", args.out.val, 0)>>
                     /\ mpc' = "done"
                     /\ mexit' = mexit
                ELSE /\ mpc' = "exited"
                     /\ mexit' = "ErrorWritingFile"
                     /\ UNCHANGED <<stdout, outfile>>
           ELSE /\ stdout' = summary \o <<Line("CodewordsHeader", <<>>, 0)>>
                                     \o CodewordLines(codewords)
                /\ mpc' = "done"
                /\ mexit' = mexit
                /\ outfile' = outfile
    /\ UNCHANGED <<args, fs, bits, chunks, codewords, padding>>
    /\ UNCHANGED evars

Next == MainReadInput \/ MainEncode \/ MainOutput

Spec == Init /\ [][Next]_vars

(***************************************************************************)
(* Vocabulary of the properties, stated without the operators above.       *)
(***************************************************************************)
IsBinary(s) == \A k \in 1..Len(s) : s[k] \in {"0", "1"}

ParityPos == {1, 2, 4, 8, 16}

\* the 26 data positions in ascending order
DataPosSeq ==
    <<3, 5, 6, 7, 9, 10, 11, 12, 13, 14, 15, 17, 18, 19, 20, 21, 22, 23, 24,
      25, 26, 27, 28, 29, 30, 31>>

\* the positions whose index has the bit of p set
GroupOf(p) == {pos \in 1..31 : (pos \div p) % 2 = 1}

OddGroup(s, p) == Cardinality({pos \in GroupOf(p) : s[pos] = "1"}) % 2 = 1

EvenParity(s) == \A p \in ParityPos : ~OddGroup(s, p)

Flip(s, i) == [s EXCEPT ![i] = IF s[i] = "1" THEN "0" ELSE "1"]

SyndromeBit(s, p) == IF OddGroup(s, p) THEN p ELSE 0

Syndrome(s) ==
    SyndromeBit(s, 1) + SyndromeBit(s, 2) + SyndromeBit(s, 4)
    + SyndromeBit(s, 8) + SyndromeBit(s, 16)

NoBinaryDigit(s) == \A k \in 1..Len(s) : s[k] \notin {"0", "1"}

\* the texts of the codeword lines among lines, in order
CodewordTexts(lines) ==
    LET cw == SelectSeq(lines, LAMBDA l : l.kind = "codeword")
    IN  [k \in 1..Len(cw) |-> cw[k].text]

\* main has called chunk_bits
Chunked ==
    \/ mpc \in {"output", "done"}
    \/ mpc = "exited" /\ mexit = "ErrorWritingFile"
    \/ mpc = "crashed" /\ mexit = "ValueError"

(***************************************************************************)
(* C1: every codeword returned for a 26-character block over 0/1 has even  *)
(* parity in each of the five parity groups, the parity position included. *)
(***************************************************************************)
C1_ParityInvariant ==
    (epc = "returned" /\ IsBinary(chunk)) =>
        /\ Len(eresult.value) = 31
        /\ IsBinary(eresult.value)
        /\ EvenParity(eresult.value)

C1_Witness ==
    /\ epc = "returned"
    /\ IsBinary(chunk)
    /\ eresult.value[1] = "1"
    /\ eresult.value[16] = "1"
    /\ eresult.value[2] = "0"

(***************************************************************************)
(* C2: the codeword read at the 26 non-parity positions in ascending order *)
(* is the block: its first bit at position 3, its second at 5, its last at *)
(* 31; this holds from the placement on, through every parity iteration,   *)
(* so no parity iteration overwrites a data position.                      *)
(***************************************************************************)
C2_DataPreserved ==
    /\ (epc \in {"parity", "returned"} /\ IsBinary(chunk)) =>
          /\ \A k \in 1..26 : codeword[DataPosSeq[k]] = <<chunk[k]>>
          /\ codeword[3] = <<chunk[1]>>
          /\ codeword[5] = <<chunk[2]>>
          /\ codeword[31] = <<chunk[26]>>
    /\ (epc = "returned" /\ IsBinary(chunk)) =>
          /\ Len(eresult.value) = 31
          /\ \A k \in 1..26 : eresult.value[DataPosSeq[k]] = chunk[k]

C2_Witness ==
    /\ epc = "returned"
    /\ IsBinary(chunk)
    /\ chunk[1] = "1" /\ chunk[2] = "0" /\ chunk[26] = "1"
    /\ eresult.value[3] = "1" /\ eresult.value[5] = "0" /\ eresult.value[31] = "1"
    /\ \E p \in ParityPos : eresult.value[p] = "1"

(***************************************************************************)
(* C3: for a bitstream of length L >= 1, chunk_bits(bits, 26) returns      *)
(* ceil(L / 26) blocks, each of length exactly 26, the last one included.  *)
(***************************************************************************)
C3_ChunkCount ==
    Chunked =>
        /\ Len(bits) >= 1
        /\ Len(chunks) = (Len(bits) + 25) \div 26
        /\ \A k \in 1..Len(chunks) : Len(chunks[k]) = 26

C3_Witness ==
    /\ mpc = "done"
    /\ Len(bits) = 27
    /\ Len(chunks) = 2
    /\ Len(chunks[2]) = 26
    /\ chunks[2][1] = "1"

(***************************************************************************)
(* C4: the blocks of chunk_bits, concatenated in order, are the bitstream  *)
(* followed by exactly k = (26 - (L mod 26)) mod 26 characters 0, and k is *)
(* the padding main reports.                                               *)
(***************************************************************************)
C4_Concatenation ==
    Chunked =>
        LET L == Len(bits)
            k == (26 - (L % 26)) % 26
        IN  /\ Len(chunks) * 26 = L + k
            /\ \A j \in 1..(L + k) :
                  chunks[((j - 1) \div 26) + 1][((j - 1) % 26) + 1]
                      = IF j <= L THEN bits[j] ELSE "0"
            /\ padding = k

C4_Witness ==
    /\ mpc = "done"
    /\ Len(bits) = 29
    /\ padding = 23
    /\ bits[27] = "1"
    /\ chunks[2][1] = "1"
    /\ chunks[2][26] = "0"

(***************************************************************************)
(* C5: an input whose length is not 26, shorter or longer, raises the      *)
(* chunk-length ValueError before anything is placed and returns nothing;  *)
(* an input of length 26 over 0/1 does not raise.                          *)
(***************************************************************************)
C5_LengthCheck ==
    /\ Len(chunk) # 26 =>
          /\ epc \in {"start", "raised"}
          /\ codeword = <<>>
          /\ epc = "raised" =>
                eresult = [status |-> "ValueError", msg |-> "ChunkLength",
                           value |-> <<>>]
    /\ (Len(chunk) = 26 /\ IsBinary(chunk)) =>
          /\ epc # "raised"
          /\ eresult.status \in {"none", "ok"}

C5_Witness ==
    /\ epc = "raised"
    /\ Len(chunk) = 27
    /\ IsBinary(chunk)
    /\ eresult.msg = "ChunkLength"

(***************************************************************************)
(* C6: a 26-character block with a character other than 0 or 1, a decimal  *)
(* digit such as 2 included, raises and returns no codeword.               *)
(***************************************************************************)
C6_InvalidBitRejected ==
    (Len(chunk) = 26 /\ ~IsBinary(chunk)) =>
        /\ epc # "returned"
        /\ eresult.status # "ok"

(***************************************************************************)
(* C7: a run of main whose effective bit input is empty after discarding   *)
(* the characters other than 0 and 1, the empty --bits literal included,   *)
(* ends with the empty-input message, without chunking, encoding or output.*)
(***************************************************************************)
C7_EmptyInputRejected ==
    ( /\ mpc # "start"
      /\ \/ args.bits.given /\ NoBinaryDigit(args.bits.val)
         \/ args.file.given /\ fs.readable /\ NoBinaryDigit(fs.content) ) =>
        /\ mpc = "exited"
        /\ mexit \in {"BitsNoBinaryDigit", "FileNoBinaryDigit"}
        /\ chunks = <<>> /\ codewords = <<>>
        /\ stdout = <<>> /\ outfile = <<>>

(***************************************************************************)
(* C8: a finished run of main emits one codeword line per block, in block  *)
(* order: line i is encode_hamming_31_26 of block i, 31 characters 0/1;    *)
(* to the --out file when one is named, to standard output otherwise.      *)
(***************************************************************************)
C8_OneLinePerBlock ==
    mpc = "done" =>
        LET toFile  == args.out.given /\ args.out.val # <<>>
            emitted == IF toFile THEN CodewordTexts(outfile)
                       ELSE CodewordTexts(SubSeq(stdout, 5, Len(stdout)))
            other   == IF toFile THEN CodewordTexts(stdout)
                       ELSE CodewordTexts(outfile)
        IN  /\ Len(bits) >= 1
            /\ chunks = chunk_bits(bits, 26)
            /\ Len(emitted) = Len(chunks)
            /\ \A i \in 1..Len(chunks) :
                  /\ emitted[i] = encode_hamming_31_26(chunks[i]).value
                  /\ Len(emitted[i]) = 31
                  /\ IsBinary(emitted[i])
            /\ other = <<>>
            /\ toFile => Len(outfile) = Len(chunks)
            /\ ~toFile => Len(stdout) = 4 + Len(chunks)

C8_Witness ==
    /\ mpc = "done"
    /\ Len(chunks) = 3
    /\ Len(outfile) = 3
    /\ chunks[2] # chunks[3]
    /\ outfile[2].text # outfile[3].text
    /\ outfile[3].text[3] = "1"

(***************************************************************************)
(* C9: the parity iterations taken in any order end in the outcome of the  *)
(* ascending order of the code, because an iteration reads no parity       *)
(* position but its own, which holds 0 until that iteration stores it.     *)
(***************************************************************************)
C9_OrderIndependent ==
    /\ epc \in {"returned", "raised"} => eresult = encode_hamming_31_26(chunk)
    /\ epc = "parity" =>
          \A p \in ParityPos \ pdone :
              /\ codeword[p] = <<"0">>
              /\ {pos \in ParityPos : InGroup(pos, p)} = {p}

C9_Witness ==
    /\ epc = "parity"
    /\ IsBinary(chunk)
    /\ pdone = {4, 16}
    /\ codeword[16] = <<"1">>
    /\ codeword[4] = <<"1">>

(***************************************************************************)
(* C10: flipping exactly bit i of a returned codeword makes the parity     *)
(* positions whose group is now odd sum to i, for every i in 1..31: every  *)
(* single-bit error is detected and located.                               *)
(***************************************************************************)
C10_SingleErrorLocated ==
    (epc = "returned" /\ IsBinary(chunk)) =>
        /\ Syndrome(eresult.value) = 0
        /\ \A i \in 1..31 : Syndrome(Flip(eresult.value, i)) = i

C10_Witness ==
    /\ epc = "returned"
    /\ IsBinary(chunk)
    /\ \E k \in 1..26 : chunk[k] = "1"
    /\ \E k \in 1..26 : chunk[k] = "0"
    /\ Syndrome(Flip(eresult.value, 21)) = 21
    /\ eresult.value[21] = "1"

====
